---- MODULE Spec2Model ----
(***************************************************************************)
(* gin-persist-log: the batch value builder (BuildValues) and the SQL     *)
(* statement builder (SqlBuilder) of package server, together with the    *)
(* process-wide uuid generator and hasher they use, driven by a writer    *)
(* that accumulates pushed records and hands them to the builder; and the  *)
(* capture middleware (Server.RequestLogger) that pushes the records; and  *)
(* the life of the process (main, DefaultServer, Serve, Shutdown).        *)
(***************************************************************************)
EXTENDS Integers, Sequences, FiniteSets, Bags, TLC

\* ------------------------------------------------------------------ bounds
\* Largest batch the writer hands to the builder.
MaxBatch == 3
\* Number of identities the generator hands out in one behaviour.
MaxUuid == 3
\* Number of exchanges the server handles, all of them possibly at once.
MaxExchanges == 2
\* Number of writes the downstream handler makes to one response.
MaxWrites == 1
\* Number of records pushed to the writer while the process runs.
MaxPushed == 2

\* --------------------------------------------------------- program constants
numColumns == 5

\* ------------------------------------------------------------- Go values
\* A Go byte slice: nil, or a (possibly empty) sequence of bytes.
NilBytes == [nil |-> TRUE, bytes |-> <<>>]
Bytes(b) == [nil |-> FALSE, bytes |-> b]

\* type TxRecord struct { Request string; Headers []byte; Body []byte; At time.Time }
\* At is an instant in nanoseconds.
TxRecord(request, headers, body, at) ==
    [type |-> "TxRecord", Request |-> request, Headers |-> headers,
     Body |-> body, At |-> at]

\* TxRecord{}: the zero value.
ZeroTxRecord == TxRecord("", NilBytes, NilBytes, 0)

\* A batch element that is not a TxRecord (the tests use the ints 1, 2, 3).
IntElem(n) == [type |-> "int", int |-> n]

\* The elements the writer is handed in this model.
Elements ==
    { TxRecord("GET /a", Bytes(<<1>>), NilBytes, 1000),
      TxRecord("GET /a", Bytes(<<2>>), Bytes(<<>>), 2500),
      TxRecord("POST /b", Bytes(<<3>>), Bytes(<<7>>), 2999),
      TxRecord("", Bytes(<<4>>), Bytes(<<7>>), 4000),
      IntElem(3) }

\* ------------------------------------------------------------ Go errors
NoErr == [err |-> "nil"]
ErrInvalidRecords == [err |-> "invalid_records"]
ErrInvalidRecord(d) == [err |-> "invalid record", elem |-> d]
ErrAn == [err |-> "assert.AnError"]
ErrGeneratingUuid == [err |-> "error generating UUID", wraps |-> ErrAn]
ErrMarshalingUuid == [err |-> "error marshaling UUID", wraps |-> ErrAn]
ErrEmptyRequest == [err |-> "empty_request"]

\* ------------------------------------------------------- argument values
\* An element of []any: nil until assigned.
NilArg == [any |-> "nil"]
BinArg(id) == [any |-> "[]byte", uuid |-> id]
StrArg(s) == [any |-> "string", str |-> s]
\* sql.Null[[]byte]{} and sql.Null[[]byte]{V: b, Valid: true}
NullBytes == [any |-> "sql.Null", Valid |-> FALSE, V |-> <<>>]
ValidBytes(b) == [any |-> "sql.Null", Valid |-> TRUE, V |-> b]

\* make([]any, n): n nil entries, not a nil slice.
MakeArgs(n) == [nil |-> FALSE, elems |-> [i \in 1..n |-> NilArg]]
NilArgs == [nil |-> TRUE, elems |-> <<>>]

\* string(rec.Headers): a nil and an empty byte slice both give "".
StringOf(b) == b.bytes

\* fmt.Sprintf("%016x", sum): 16 hex digits of the 64-bit sum.  The digest is
\* kept symbolic (the strings written since the last reset), so the rendering
\* is tagged rather than computed digit by digit.
Hex16(sum) == [any |-> "string", hex16 |-> sum]

\* rec.At.Format("2006-01-02 15:04:05.000000"): microsecond precision, the
\* nanoseconds below a microsecond are dropped.
NanosPerMicro == 1000
FormatAt(at) ==
    [any |-> "string", layout |-> "2006-01-02 15:04:05.000000",
     micros |-> at \div NanosPerMicro]

\* ------------------------------------------- the process-wide uuid and hasher
\* var uuid utils.UUID: New() draws a new value into the object, MarshalBinary()
\* renders the value the object holds.  gen counts the values handed out; a
\* generator that works returns a value it has never returned before.
UuidInit == [cur |-> 0, gen |-> 0]
\* A slip: New() counts the value but leaves the old one in the object.
UuidNewSame(u) == [cur |-> u.cur, gen |-> u.gen + 1]
UuidNew(u) == [cur |-> u.gen + 1, gen |-> u.gen + 1]
UuidMarshalBinary(u) == BinArg(u.cur)

\* How the generator and the hasher behave for one record: everything works,
\* uuid.New() fails, uuid.MarshalBinary() fails, or hasher.WriteString() fails.
Outcomes == {"ok", "newErr", "marshalErr", "writeErr"}

\* var hasher internal.Hasher (XxHasher over an xxhash digest): the digest is the
\* strings written since it was created or reset.
HasherInit == <<>>
HasherNew(h) == <<>>
\* A slip: the digest is not reset between records.
HasherResetKeeps(h) == h
HasherReset(h) == <<>>
HasherWriteString(h, s) == Append(h, s)
HasherHash(h) == h

\* ---------------------------------------------------------------- BuildValues
\* The locals and named results of BuildValues while it runs; returned is set by
\* the two return statements inside the loop.
BuildStart(records, u, h) ==
    [count |-> 0, args |-> MakeArgs(Len(records) * numColumns), failed |-> <<>>,
     err |-> NoErr, uuid |-> u, hasher |-> HasherNew(h), returned |-> FALSE]

\* A slip: the named results are left as they are.
FatalReturnPartial(st, e) == [st EXCEPT !.err = e, !.returned = TRUE]

\* A slip: "continue" where the code returns.
FatalReturnContinues(st, e) == [st EXCEPT !.err = e]

\* return 0, nil, nil, e
FatalReturn(st, e) ==
    [st EXCEPT !.count = 0, !.args = NilArgs, !.failed = <<>>, !.err = e,
               !.returned = TRUE]

SetArg(args, idx, v) == [args EXCEPT !.elems[idx + 1] = v]

\* A slip: only the nil body becomes NULL.
BodyArgNilOnly(body) ==
    IF body.nil THEN NullBytes ELSE ValidBytes(body.bytes)

\* if nil == rec.Body || 0 == len(rec.Body) { sql.Null{} } else { sql.Null{V, Valid} }
BodyArg(body) ==
    IF body.nil \/ Len(body.bytes) = 0 THEN NullBytes ELSE ValidBytes(body.bytes)

\* A slip: the row is written but not counted.
CountRowSkipped(st) == st

\* count++
CountRow(st) == [st EXCEPT !.count = st.count + 1]

\* A slip: the row is placed by the position in the batch, not by the rows so far.
RowIndexByPosition(st) == (st.count + Len(st.failed)) * numColumns

\* idx := count * numColumns
RowIndex(st) == st.count * numColumns

\* The part of the loop body after the id was marshalled into args[idx].
ConvertRecord(st, rec, o) ==
    LET idx == RowIndex(st)
        a0 == SetArg(st.args, idx, UuidMarshalBinary(st.uuid))
        h1 == HasherWriteString(HasherReset(st.hasher), rec.Request)
        a1 == SetArg(a0, idx + 1, Hex16(HasherHash(h1)))
        a2 == SetArg(a1, idx + 2, StrArg(StringOf(rec.Headers)))
        a3 == SetArg(a2, idx + 3, BodyArg(rec.Body))
        a4 == SetArg(a3, idx + 4, FormatAt(rec.At))
    IN  IF rec.Request = ""
        THEN FatalReturn([st EXCEPT !.args = a0], ErrEmptyRequest)
        ELSE IF o = "writeErr"
        THEN FatalReturn([st EXCEPT !.args = a0, !.hasher = HasherReset(st.hasher)],
                         ErrAn)
        \* _, err = hasher.WriteString(rec.Request) assigns the named result err
        ELSE CountRow([st EXCEPT !.args = a4, !.hasher = h1, !.err = NoErr])

\* A slip: the error is set but the record is not kept.
RecordFailureDropsRecord(st, rec, e) == [st EXCEPT !.err = e]

\* err = fmt.Errorf(...); failed = append(failed, rec); continue
RecordFailure(st, rec, e) ==
    [st EXCEPT !.err = e, !.failed = Append(st.failed, rec)]

\* A slip: an element that is not a TxRecord is skipped without a trace.
LoopBodySkipsNonRecord(st, d, o) ==
    IF d.type # "TxRecord"
    THEN st
    ELSE IF o = "newErr"
    THEN RecordFailure(st, d, ErrGeneratingUuid)
    ELSE IF o = "marshalErr"
    THEN RecordFailure([st EXCEPT !.uuid = UuidNew(st.uuid)], d, ErrMarshalingUuid)
    ELSE ConvertRecord([st EXCEPT !.uuid = UuidNew(st.uuid)], d, o)

\* A slip: the identity is drawn once and used for every record after it.
LoopBodyReusesId(st, d, o) ==
    IF d.type # "TxRecord"
    THEN RecordFailure(st, ZeroTxRecord, ErrInvalidRecord(d))
    ELSE IF o = "newErr"
    THEN RecordFailure(st, d, ErrGeneratingUuid)
    ELSE IF o = "marshalErr"
    THEN RecordFailure([st EXCEPT !.uuid = UuidNew(st.uuid)], d, ErrMarshalingUuid)
    ELSE ConvertRecord(IF st.count = 0 THEN [st EXCEPT !.uuid = UuidNew(st.uuid)] ELSE st,
                       d, o)

\* One iteration of "for _, d := range records".
LoopBody(st, d, o) ==
    IF d.type # "TxRecord"
    THEN RecordFailure(st, ZeroTxRecord, ErrInvalidRecord(d))
    ELSE IF o = "newErr"
    THEN RecordFailure(st, d, ErrGeneratingUuid)
    ELSE IF o = "marshalErr"
    THEN RecordFailure([st EXCEPT !.uuid = UuidNew(st.uuid)], d, ErrMarshalingUuid)
    ELSE ConvertRecord([st EXCEPT !.uuid = UuidNew(st.uuid)], d, o)

RECURSIVE BuildLoop(_, _, _, _)
BuildLoop(st, records, env, i) ==
    IF i > Len(records) \/ st.returned
    THEN st
    ELSE BuildLoop(LoopBody(st, records[i], env[i]), records, env, i + 1)

\* func BuildValues(data interface{}) (count, args, failed, err): data is
\* [slice |-> TRUE, records |-> ...] when it is a []interface{}.  The result also
\* carries the uuid and hasher as the call leaves them.
BuildValues(data, env, u, h) ==
    IF ~data.slice
    THEN [count |-> 0, args |-> NilArgs, failed |-> <<>>, err |-> ErrInvalidRecords,
          uuid |-> u, hasher |-> h, returned |-> TRUE]
    ELSE BuildLoop(BuildStart(data.records, u, h), data.records, env, 1)

\* ----------------------------------------------------------------- SqlBuilder
\* Go strings as sequences of characters.
RECURSIVE Repeat(_, _)
Repeat(str, n) == IF n <= 0 THEN <<>> ELSE str \o Repeat(str, n - 1)

\* s[1:] panics (slice bounds out of range) on the empty string.
CanSliceFrom1(str) == Len(str) >= 1
SliceFrom1(str) == SubSeq(str, 2, Len(str))

InsertHead == <<"INSERT INTO tx_log (id, req_hash, headers, body, created_at) VALUES">>

\* ps: ",(" followed by strings.Repeat(",?", numColumns)[1:] and ")".
PlaceholderGroup == <<",", "(">> \o SliceFrom1(Repeat(<<",", "?">>, numColumns)) \o <<")">>

\* The statement rendered for count rows.
RenderStatement(count) ==
    InsertHead \o SliceFrom1(Repeat(PlaceholderGroup, count)) \o <<";">>

\* A slip: the loop over the failed records ends at the first write that fails.
SinkWritesStopAtFailure(fails, wfail) ==
    LET stop == IF \E k \in 1..Len(fails) : k \in wfail
                THEN CHOOSE k \in 1..Len(fails) :
                       k \in wfail /\ \A j \in 1..(k - 1) : j \notin wfail
                ELSE Len(fails)
    IN  [k \in 1..stop |-> [rec |-> fails[k], ok |-> k \notin wfail]]

\* for _, f := range fails { Fprintf(failed, "%#v;\n", f); log on error }:
\* the write of the k-th failed record fails when k is in wfail.
SinkWrites(fails, wfail) ==
    [k \in 1..Len(fails) |-> [rec |-> fails[k], ok |-> k \notin wfail]]

RECURSIVE SinkLogs(_, _)
SinkLogs(writes, k) ==
    IF k > Len(writes) THEN <<>>
    ELSE (IF writes[k].ok THEN <<>> ELSE << [log |-> "can't log fails", err |-> ErrAn] >>)
         \o SinkLogs(writes, k + 1)

\* What SqlBuilder does with the result bv of BuildValues.
BuilderReturn(bv, wfail) ==
    IF bv.err # NoErr
    THEN [panicked |-> FALSE, stmt |-> <<>>, args |-> NilArgs,
          logs |-> << [log |-> "error building values", err |-> bv.err] >>
                   \o SinkLogs(SinkWrites(bv.failed, wfail), 1),
          writes |-> SinkWrites(bv.failed, wfail)]
    ELSE IF ~CanSliceFrom1(Repeat(PlaceholderGroup, bv.count))
    THEN [panicked |-> TRUE, stmt |-> <<>>, args |-> NilArgs, logs |-> <<>>,
          writes |-> <<>>]
    ELSE [panicked |-> FALSE, stmt |-> RenderStatement(bv.count), args |-> bv.args,
          logs |-> <<>>, writes |-> <<>>]

\* The closure SqlBuilder(log, failed) returns, applied to a batch.
SqlBuilder(records, env, wfail, u, h) ==
    LET bv == BuildValues([slice |-> TRUE, records |-> records], env, u, h)
    IN  [bv |-> bv, ret |-> BuilderReturn(bv, wfail)]

\* ------------------------------------------------------- the capture middleware
\* An io.ReadCloser as the bytes still to be read from it; a request may have no
\* body stream at all.
NoStream == [nil |-> TRUE, data |-> <<>>]
Stream(b) == [nil |-> FALSE, data |-> b]

\* io.ReadAll(r): everything left in the stream, which is drained by it.
ReadAll(r) == r.data
Drained(r) == Stream(<<>>)

\* The requests the clients send.
Requests ==
    { [Method |-> "GET", URL |-> "http://localhost/t", Body |-> NoStream],
      [Method |-> "POST", URL |-> "http://localhost/t?a=b%21c", Body |-> Stream(<<1, 2>>)] }

\* A slip: the separator is left out.
CorrelationLineUnseparated(req) == req.Method \o req.URL

\* sb.WriteString(method); sb.WriteString(" "); sb.WriteString(url)
CorrelationLine(req) == req.Method \o " " \o req.URL

\* httputil.DumpRequest(req, false): the request line and headers, no body.
DumpRequest(req) == Bytes(<<req.Method, req.URL, "HTTP/1.1", "Host: localhost">>)

\* writeResLine and writeResHeaders into buf: "HTTP/1.1 <status> <reason>\r\n"
\* and the response headers.
StatusOK == 200
StatusBadRequest == 400
StatusInternalServerError == 500
ResponseHead(status) == Bytes(<<"HTTP/1.1", ToString(status), "\r\n", "headers">>)

\* What can go wrong in the middleware: dumpRequest, readBody, writeResponseLine
\* or writeResponseHeaders returns an error.
BeforeFaults == {"none", "dump", "read"}
AfterFaults == {"none", "line", "headers"}

Exchanges == 1..MaxExchanges

\* One exchange: the gin.Context (request body stream, writer status, abort flag),
\* the locals of the middleware (line, rlw.Body) and, for the properties, what
\* the client sent, what the writer received from this exchange, what reached the
\* underlying response writer and what the handler read from the request body.
IdleExchange ==
    [pc |-> "idle", req |-> [Method |-> "", URL |-> "", Body |-> NoStream],
     body |-> NoStream, line |-> "", rlw |-> <<>>, under |-> <<>>, writes |-> 0,
     status |-> StatusOK, aborted |-> FALSE, called |-> FALSE, read |-> <<>>,
     pushes |-> <<>>, fault |-> "none"]

\* A slip: every abort answers with the server error.
AbortWithServerError(x, code, fault) ==
    [x EXCEPT !.status = StatusInternalServerError, !.aborted = TRUE, !.pc = "done",
              !.fault = fault]

\* gc.AbortWithStatus(code); return
AbortWithStatus(x, code, fault) ==
    [x EXCEPT !.status = code, !.aborted = TRUE, !.pc = "done", !.fault = fault]

\* s.Writer.Push(rec), as seen from the exchange that pushes.
WriterPush(x, rec) == [x EXCEPT !.pushes = Append(x.pushes, rec)]

\* A slip: the drained stream is left in place.
ReplaceBodyForgotten(x, b) == [x EXCEPT !.body = Drained(x.body)]

\* gc.Request.Body = io.NopCloser(bytes.NewBuffer(body))
ReplaceBody(x, b) == [x EXCEPT !.body = Stream(b)]

\* A slip: the request record is not pushed before the handler runs.
PushRequestDeferred(x, req, bodyBytes) == x

\* s.Writer.Push(TxRecord{line, headers, body, time.Now()})
PushRequest(x, req, bodyBytes) ==
    WriterPush(x, TxRecord(x.line, DumpRequest(req), bodyBytes, 0))

\* gc.Next(): the downstream handler is entered.
CallNext(x) == [x EXCEPT !.called = TRUE, !.pc = "handling"]

\* A slip: the request record is pushed as soon as the head is dumped, so a
\* failure to read the body leaves one record pushed.
BeforeHandlerPushesFirst(x, req, fault) ==
    LET x0 == [x EXCEPT !.req = req, !.body = req.Body, !.line = CorrelationLine(req)]
        x1 == WriterPush(x0, TxRecord(x0.line, DumpRequest(req), NilBytes, 0))
    IN  IF fault = "dump"
        THEN AbortWithStatus(x0, StatusBadRequest, fault)
        ELSE IF req.Body.nil
        THEN CallNext(x1)
        ELSE IF fault = "read"
        THEN AbortWithStatus(x1, StatusBadRequest, fault)
        ELSE CallNext(ReplaceBody(x1, ReadAll(req.Body)))

\* RequestLogger up to gc.Next(): lines 138-169.
BeforeHandler(x, req, fault) ==
    LET x0 == [x EXCEPT !.req = req, !.body = req.Body, !.line = CorrelationLine(req)]
    IN  IF fault = "dump"
        THEN AbortWithStatus(x0, StatusBadRequest, fault)
        ELSE IF req.Body.nil
        THEN CallNext(PushRequest(x0, req, NilBytes))
        ELSE IF fault = "read"
        THEN AbortWithStatus(x0, StatusBadRequest, fault)
        ELSE CallNext(PushRequest(ReplaceBody(x0, ReadAll(req.Body)), req,
                                  Bytes(ReadAll(req.Body))))

\* ResponseLogWriter.Write(b): w.Body.Write(b); return w.ResponseWriter.Write(b)
RlwWrite(x, b) ==
    [x EXCEPT !.rlw = x.rlw \o b, !.under = x.under \o b, !.writes = x.writes + 1]

\* ResponseLogWriter has no WriteString of its own: the call goes to the embedded
\* gin.ResponseWriter.
RlwWriteString(x, b) ==
    [x EXCEPT !.under = x.under \o b, !.writes = x.writes + 1]

\* A slip: the response record is pushed although rendering failed.
AfterHandlerPushesAnyway(x, fault) ==
    [WriterPush(x, TxRecord(x.line, ResponseHead(x.status), Bytes(x.rlw), 0))
       EXCEPT !.pc = "done", !.fault = fault]

\* RequestLogger after gc.Next() returned: lines 170-182.
AfterHandler(x, fault) ==
    IF fault \in {"line", "headers"}
    THEN AbortWithStatus(x, StatusInternalServerError, fault)
    ELSE [WriterPush(x, TxRecord(x.line, ResponseHead(x.status), Bytes(x.rlw), 0))
            EXCEPT !.pc = "done"]

\* ------------------------------------------------------------ the state machine
\* ------------------------------------------------------ the process lifecycle
\* cfg := server.ConnConfig{Driver: os.Getenv("DB_DRIVER"), Dsn: os.Getenv("DB_DSN")}
Configs == [Driver : {"", "mysql", "sqlite3", "postgres"}, Dsn : {"", "dsn"},
            Dialect : {""}]

\* How a call into the environment ends.
Results == {"ok", "err"}

\* type DbConfig struct { Driver, Dsn, Dialect string }, as the tests set it.
DbConfigs == [Driver : {"", "mysql", "sqlite3"}, Dsn : {"", "dsn"},
              Dialect : {"", "mysql", "sqlite3", "sqlite"}]

\* A slip: the DSN is checked before the driver.
ConnectDBChecksDsnFirst(cfg, o) ==
    IF cfg.Dsn = "" THEN [conn |-> "nil", err |-> "invalid DSN", opened |-> FALSE]
    ELSE IF cfg.Driver = ""
    THEN [conn |-> "nil", err |-> "invalid DB driver", opened |-> FALSE]
    ELSE IF o = "err" THEN [conn |-> "nil", err |-> "sql.Open", opened |-> TRUE]
    ELSE [conn |-> "open", err |-> "nil", opened |-> TRUE]

\* ConnectDB(cfg): o is how sql.Open ends; opened tells whether sql.Open was
\* called at all.
ConnectDB(cfg, o) ==
    IF cfg.Driver = "" THEN [conn |-> "nil", err |-> "invalid DB driver", opened |-> FALSE]
    ELSE IF cfg.Dsn = "" THEN [conn |-> "nil", err |-> "invalid DSN", opened |-> FALSE]
    ELSE IF o = "err" THEN [conn |-> "nil", err |-> "sql.Open", opened |-> TRUE]
    ELSE [conn |-> "open", err |-> "nil", opened |-> TRUE]

\* The DDL of a dialect as the statements it holds: what is created, under which
\* name, and whether "IF NOT EXISTS" guards it.
CreateTable(dialect, name, indexes) ==
    [op |-> "create table", dialect |-> dialect, name |-> name, guard |-> TRUE,
     indexes |-> indexes]
CreateIndex(dialect, name, guard) ==
    [op |-> "create index", dialect |-> dialect, name |-> name, guard |-> guard,
     indexes |-> {}]
NoStmt == <<>>

\* internal.DefaultMysqlTable(): one statement, the index inside the table.
DefaultMysqlTable == << CreateTable("mysql", "tx_log", {"ix_tx_log_hash"}) >>

\* A slip: the index is created without "IF NOT EXISTS".
DefaultSqliteTableUnguarded ==
    << CreateTable("sqlite3", "tx_log", {}),
       CreateIndex("sqlite3", "ix_tx_log_hash", FALSE) >>

\* internal.DefaultSqliteTable(): the table, then the index.
DefaultSqliteTable ==
    << CreateTable("sqlite3", "tx_log", {}),
       CreateIndex("sqlite3", "ix_tx_log_hash", TRUE) >>

\* A store: the tables and the indexes it holds.
EmptyStore == [tables |-> {}, indexes |-> {}]

\* One statement run by the store's engine: a guarded CREATE leaves an object
\* that exists alone, an unguarded one fails on it.
ExecStmt(store, st) ==
    IF st.op = "create table"
    THEN IF st.name \in store.tables
         THEN [store |-> store, err |-> IF st.guard THEN "nil" ELSE "already exists"]
         ELSE [store |-> [tables |-> store.tables \cup {st.name},
                          indexes |-> store.indexes \cup st.indexes],
               err |-> "nil"]
    ELSE IF st.name \in store.indexes
         THEN [store |-> store, err |-> IF st.guard THEN "nil" ELSE "already exists"]
         ELSE [store |-> [store EXCEPT !.indexes = store.indexes \cup {st.name}],
               err |-> "nil"]

\* conn.Exec(stmt) on a store run by engine: o = "err" is a failure of the
\* connection; DDL written for another engine is rejected; the statements run in
\* order up to the first that fails.
RECURSIVE ConnExec(_, _, _, _, _)
ConnExec(store, engine, stmt, o, k) ==
    IF o = "err" THEN [store |-> store, err |-> "conn.Exec"]
    ELSE IF k > Len(stmt) THEN [store |-> store, err |-> "nil"]
    ELSE IF stmt[k].dialect # engine THEN [store |-> store, err |-> "syntax error"]
    ELSE LET r == ExecStmt(store, stmt[k])
         IN  IF r.err # "nil" THEN r ELSE ConnExec(r.store, engine, stmt, o, k + 1)

\* A slip: the table is taken as provisioned whatever the dialect and connection.
CreateDefaultTableUnchecked(cfg, conn, o) ==
    [panic |-> FALSE, err |-> "nil", stmt |-> NoStmt]

\* A slip: the driver decides the dialect whenever it is set.
CreateDefaultTableDriverFirst(cfg, conn, o) ==
    LET dialect == IF cfg.Driver = "" THEN cfg.Dialect ELSE cfg.Driver
        stmt == IF dialect = "mysql" THEN DefaultMysqlTable ELSE DefaultSqliteTable
    IN  IF dialect \notin {"mysql", "sqlite3"}
        THEN [panic |-> FALSE, err |-> "unsupported SQL dialect", stmt |-> NoStmt]
        ELSE IF conn = "nil"
        THEN [panic |-> TRUE, err |-> "nil pointer dereference", stmt |-> stmt]
        ELSE IF o = "err"
        THEN [panic |-> FALSE, err |-> "conn.Exec", stmt |-> stmt]
        ELSE [panic |-> FALSE, err |-> "nil", stmt |-> stmt]

\* CreateDefaultTable(cfg, conn): stmt is what is handed to conn.Exec (nothing
\* when the dialect is not supported) and o is how conn.Exec ends; Exec on a nil
\* *sql.DB dereferences nil and panics.
CreateDefaultTable(cfg, conn, o) ==
    LET dialect == IF cfg.Dialect = "" THEN cfg.Driver ELSE cfg.Dialect
        stmt == IF dialect = "mysql" THEN DefaultMysqlTable ELSE DefaultSqliteTable
    IN  IF dialect \notin {"mysql", "sqlite3"}
        THEN [panic |-> FALSE, err |-> "unsupported SQL dialect", stmt |-> NoStmt]
        ELSE IF conn = "nil"
        THEN [panic |-> TRUE, err |-> "nil pointer dereference", stmt |-> stmt]
        ELSE IF o = "err"
        THEN [panic |-> FALSE, err |-> "conn.Exec", stmt |-> stmt]
        ELSE [panic |-> FALSE, err |-> "nil", stmt |-> stmt]

\* The database before anything was called: no connection, an empty store.
NoDbCall == [fn |-> "none", cfg |-> [Driver |-> "", Dsn |-> "", Dialect |-> ""],
             o |-> "ok", conn |-> "nil", err |-> "nil", opened |-> FALSE,
             panic |-> FALSE, stmt |-> NoStmt, before |-> EmptyStore]
DbInit == [conn |-> "nil", engine |-> "", store |-> EmptyStore, last |-> NoDbCall]

\* Listen addresses, as Go strings taken character by character (LISTEN).
Addrs ==
    { <<":", "8", "0">>,
      <<"u", "n", "i", "x", ":", "/", "s">>,
      <<"u", "n", "i", "x", "/", "s">> }

\* strings.HasPrefix(str, prefix)
HasPrefix(str, prefix) ==
    Len(str) >= Len(prefix) /\ SubSeq(str, 1, Len(prefix)) = prefix

\* A slip: the socket is asked to listen on the whole address.
TransportWholeAddr(addr) ==
    IF HasPrefix(addr, <<"u", "n", "i", "x", ":">>)
    THEN [kind |-> "unix", target |-> addr]
    ELSE [kind |-> "tcp", target |-> addr]

\* Serve: "unix:" selects listenSock(s.Server.Addr[5:]) and serveSock, anything
\* else s.Server.ListenAndServe() on the address.
Transport(addr) ==
    IF HasPrefix(addr, <<"u", "n", "i", "x", ":">>)
    THEN [kind |-> "unix", target |-> SubSeq(addr, 6, Len(addr))]
    ELSE [kind |-> "tcp", target |-> addr]

\* nil != err && !errors.Is(err, http.ErrServerClosed)
ServePanics(err) == err # "nil" /\ err # "http.ErrServerClosed"

\* A slip: the writer is built and started before the signals are registered.
DefaultServerStepsWriterFirst ==
    << "openDbLog", "openReqLog", "makeChans", "buildWriter", "startWriter",
       "signalNotify", "newServer" >>

\* The statements of DefaultServer, in order.
DefaultServerSteps ==
    << "openDbLog", "openReqLog", "makeChans", "signalNotify", "buildWriter",
       "startWriter", "newServer" >>

\* The statements of main, in order, with DefaultServer's in their place.
MainSteps ==
    << "ConnectDB", "CreateDefaultTable" >> \o DefaultServerSteps
    \o << "deferCleanup", "goServe", "recvSignal", "closeStop", "Shutdown",
          "checkErr", "return" >>

\* cleanup: three deferred closes, run last-deferred first.
CleanupDefers == << "conn", "reqlog", "dblog" >>
RunOrder(defers) == [k \in 1..Len(defers) |-> defers[Len(defers) + 1 - k]]

\* The process before main runs.
ProcInit ==
    [ pc |-> 1, cfg |-> [Driver |-> "", Dsn |-> "", Dialect |-> ""],
      conn |-> "nil", connErr |-> "nil", faults |-> {},
      dblog |-> "none", reqlog |-> "none",
      stop |-> "none", sigReg |-> FALSE, sigChan |-> "empty", sig |-> "none",
      writer |-> "none", pending |-> 0, flushed |-> 0, serve |-> "none",
      addr |-> <<>>, shut |-> FALSE, transport |-> "none", sock |-> <<>>,
      serveErr |-> "nil",
      deferred |-> FALSE, shutdownErr |-> "nil",
      cleanup |-> 0, closes |-> [r \in {"conn", "reqlog", "dblog"} |-> 0],
      panicking |-> FALSE, exit |-> "running", log |-> <<>> ]

Logged(p, ev) == [p EXCEPT !.log = Append(p.log, ev)]

\* An unrecovered panic: the runtime runs the deferred calls (cleanup, once it is
\* deferred) and ends the process with status 2.
Panic(p) ==
    IF p.deferred
    THEN [p EXCEPT !.panicking = TRUE, !.cleanup = 1, !.pc = Len(MainSteps) + 1]
    ELSE [p EXCEPT !.panicking = TRUE, !.exit = "2"]

\* utils.PanicIfError(err)
PanicIfError(p, err) == IF err # "nil" THEN Panic(p) ELSE p

\* os.Exit(code): the process ends at once, deferred calls do not run.
OsExit(p, code) == [p EXCEPT !.exit = code]

\* One statement of main (or of DefaultServer); cfg and o are what the
\* environment gives it.
Exec(p, label, cfg, addr, o) ==
    LET q == Logged([p EXCEPT !.pc = p.pc + 1], label)
    IN  CASE label = "ConnectDB" ->
               [q EXCEPT !.cfg = cfg, !.conn = ConnectDB(cfg, o).conn,
                         !.connErr = ConnectDB(cfg, o).err]
          [] label = "CreateDefaultTable" ->
               LET r == CreateDefaultTable(p.cfg, p.conn, o)
               IN  IF r.panic THEN Panic(q) ELSE PanicIfError(q, r.err)
          [] label = "openDbLog" ->
               IF o = "err"
               THEN PanicIfError([q EXCEPT !.faults = p.faults \cup {"openDbLog"}], "open")
               ELSE [q EXCEPT !.dblog = "open"]
          [] label = "openReqLog" ->
               IF o = "err"
               THEN PanicIfError([q EXCEPT !.faults = p.faults \cup {"openReqLog"}], "open")
               ELSE [q EXCEPT !.reqlog = "open"]
          [] label = "makeChans" -> [q EXCEPT !.stop = "open"]
          [] label = "signalNotify" -> [q EXCEPT !.sigReg = TRUE]
          [] label = "buildWriter" -> [q EXCEPT !.writer = "built"]
          [] label = "startWriter" -> [q EXCEPT !.writer = "running"]
          [] label = "newServer" -> [q EXCEPT !.serve = "created", !.addr = addr]
          [] label = "deferCleanup" -> [q EXCEPT !.deferred = TRUE]
          [] label = "goServe" -> [q EXCEPT !.serve = "spawned"]
          [] label = "recvSignal" -> [q EXCEPT !.sig = p.sigChan, !.sigChan = "empty"]
          [] label = "closeStop" -> [q EXCEPT !.stop = "closed"]
          [] label = "Shutdown" ->
               [q EXCEPT !.shut = TRUE,
                         !.serve = IF p.serve = "accepting" THEN "closed" ELSE p.serve,
                         !.shutdownErr = IF o = "err" THEN "context deadline exceeded"
                                         ELSE "nil"]
          [] label = "checkErr" ->
               IF p.shutdownErr # "nil" THEN OsExit(q, "1") ELSE q
          [] label = "return" -> [q EXCEPT !.cleanup = 1]

\* A statement that waits: <-sigChan waits for a signal.
CanExec(p, label) == label = "recvSignal" => p.sigChan # "empty"

\* A slip: the closes are plain calls, so a close that fails ends cleanup.
CloseResourceAborting(p, res, o) ==
    LET q == Logged([p EXCEPT !.closes[res] = p.closes[res] + 1, ![res] = "closed",
                              !.cleanup = p.cleanup + 1], "close " \o res)
    IN  IF o = "err"
        THEN [q EXCEPT !.panicking = TRUE, !.cleanup = Len(CleanupDefers) + 1,
                       !.faults = p.faults \cup {"close " \o res}]
        ELSE q

\* defer func() { utils.PanicIfError(res.Close()) }(): a panic in one deferred
\* call leaves the calls deferred before it to run.
CloseResource(p, res, o) ==
    LET q == Logged([p EXCEPT !.closes[res] = p.closes[res] + 1, ![res] = "closed",
                              !.cleanup = p.cleanup + 1], "close " \o res)
    IN  IF o = "err"
        THEN [q EXCEPT !.panicking = TRUE, !.faults = p.faults \cup {"close " \o res}]
        ELSE q

\* main has returned or panicked and its deferred calls are done.
ProcessEnd(p) == [p EXCEPT !.exit = IF p.panicking THEN "2" ELSE "0", !.cleanup = 0]

\* ------------------------------------------- BuildValues, statement by statement
\* The tasks that call BuildValues in one process, each for its own writer.
Invokers == {1, 2}

MaxRaceLen == 1

\* The batches such a task is handed: records with a correlation line.
RaceBatches ==
    UNION { [1..n -> {d \in Elements : d.type = "TxRecord" /\ d.Request # ""}] :
              n \in 1..MaxRaceLen }

\* The locals of one invocation: the record it is at, the id it marshalled for
\* it, and the rows it has filled in.  overlapped tells that another invocation
\* was running at some moment of this one.
IdleTask ==
    [pc |-> "idle", records |-> <<>>, i |-> 0, id |-> NilArg, rows |-> <<>>,
     overlapped |-> FALSE]

Active(tk) == tk.pc \notin {"idle", "done"}

\* ---------------------------------------------------------------- the state
VARIABLES
    ex,      \* the exchanges, each in its own request task
    batch,   \* the records pushed to the writer and not yet flushed
    call,    \* the builder invocation of the current flush: its input and result
    uuid,    \* the process-wide uuid object
    hasher,  \* the process-wide hasher
    crashed, \* the flush task died of a panic
    proc,    \* the process: main's position, its resources and its tasks
    db,      \* the database: the connection, the store and the last call made
    tasks    \* the tasks that invoke BuildValues side by side

vars == <<batch, call, uuid, hasher, crashed, ex, proc, db, tasks>>

NoCall == [active |-> FALSE]

Init ==
    /\ batch = <<>>
    /\ call = NoCall
    /\ uuid = UuidInit
    /\ hasher = HasherInit
    /\ crashed = FALSE
    /\ ex = [e \in Exchanges |-> IdleExchange]
    /\ proc = ProcInit
    /\ db = DbInit
    /\ tasks = [t \in Invokers |-> IdleTask]

\* s.Writer.Push(d): the writer appends to its cache.  A push that arrives while
\* a flush is under way lands in the next batch, so pushes are taken between
\* flush cycles.
Push(d) ==
    /\ ~crashed
    /\ ~call.active
    /\ Len(batch) < MaxBatch
    /\ batch' = Append(batch, d)
    /\ UNCHANGED <<call, uuid, hasher, crashed, ex, proc, db, tasks>>

\* How uuid and hasher behave during one invocation, one outcome per element;
\* only a TxRecord reaches them.
Envs(records) ==
    { env \in [1..Len(records) -> Outcomes] :
        \A i \in 1..Len(records) : records[i].type # "TxRecord" => env[i] = "ok" }

\* The flush task hands the accumulated batch to the builder.
Flush ==
    /\ ~crashed
    /\ ~call.active
    /\ uuid.gen + Len(batch) <= MaxUuid
    /\ \E env \in Envs(batch) :
         LET bv == BuildValues([slice |-> TRUE, records |-> batch], env, uuid, hasher)
         IN  \E wfail \in SUBSET (1..Len(bv.failed)) :
               LET r == SqlBuilder(batch, env, wfail, uuid, hasher)
               IN  /\ call' = [active |-> TRUE, batch |-> batch, env |-> env,
                                bv |-> [count |-> r.bv.count, args |-> r.bv.args,
                                        failed |-> r.bv.failed, err |-> r.bv.err],
                                ret |-> r.ret]
                   /\ uuid' = r.bv.uuid
                   /\ hasher' = r.bv.hasher
                   /\ crashed' = r.ret.panicked
    /\ batch' = <<>>
    /\ UNCHANGED <<ex, proc, db, tasks>>

\* The writer executes what the builder returned and ends the flush cycle.
Execute ==
    /\ ~crashed
    /\ call.active
    /\ call' = NoCall
    /\ UNCHANGED <<batch, uuid, hasher, crashed, ex, proc, db, tasks>>

Next ==
    \/ \E d \in Elements : Push(d)
    \/ Flush
    \/ Execute

Spec == Init /\ [][Next]_vars

\* ------------------------------------------------ the exchanges, step by step
\* The records of the exchanges reach the writer through Push; here they are
\* followed exchange by exchange, and the builder's state stays as it is.
bvars == <<batch, call, uuid, hasher, crashed>>

\* A request arrives and the middleware runs up to gc.Next().
Begin(e) ==
    /\ ex[e].pc = "idle"
    /\ \E req \in Requests, fault \in BeforeFaults :
         /\ fault = "read" => ~req.Body.nil
         /\ ex' = [ex EXCEPT ![e] = BeforeHandler(ex[e], req, fault)]
    /\ UNCHANGED <<bvars, proc, db, tasks>>

\* The k-th chunk the handler of exchange e writes.
Chunk(e, k) == <<10 * e + k>>

\* A slip: one capture buffer serves every exchange.
HandlerWriteShared(e) ==
    /\ ex[e].pc = "handling"
    /\ ex[e].writes < MaxWrites
    /\ ex' = [f \in Exchanges |->
                IF f = e THEN RlwWrite(ex[e], Chunk(e, ex[e].writes + 1))
                ELSE [ex[f] EXCEPT !.rlw = ex[f].rlw \o Chunk(e, ex[e].writes + 1)]]
    /\ UNCHANGED <<bvars, proc, db, tasks>>

\* The handler writes through gc.Writer.Write.
HandlerWrite(e) ==
    /\ ex[e].pc = "handling"
    /\ ex[e].writes < MaxWrites
    /\ ex' = [ex EXCEPT ![e] = RlwWrite(ex[e], Chunk(e, ex[e].writes + 1))]
    /\ UNCHANGED <<bvars, proc, db, tasks>>

\* The handler writes through gc.Writer.WriteString.
HandlerWriteString(e) ==
    /\ ex[e].pc = "handling"
    /\ ex[e].writes < MaxWrites
    /\ ex' = [ex EXCEPT ![e] = RlwWriteString(ex[e], Chunk(e, ex[e].writes + 1))]
    /\ UNCHANGED <<bvars, proc, db, tasks>>

\* The handler reads the request body it was given and returns.
HandlerReturn(e) ==
    /\ ex[e].pc = "handling"
    /\ ex' = [ex EXCEPT ![e].read = ReadAll(ex[e].body),
                        ![e].body = IF ex[e].body.nil THEN NoStream
                                    ELSE Drained(ex[e].body),
                        ![e].pc = "handled"]
    /\ UNCHANGED <<bvars, proc, db, tasks>>

\* gc.Next() has returned and the middleware runs to its end.
Finish(e) ==
    /\ ex[e].pc = "handled"
    /\ \E fault \in AfterFaults :
         ex' = [ex EXCEPT ![e] = AfterHandler(ex[e], fault)]
    /\ UNCHANGED <<bvars, proc, db, tasks>>

NextCapture ==
    \E e \in Exchanges :
      \/ Begin(e)
      \/ HandlerWrite(e)
      \/ HandlerWriteString(e)
      \/ HandlerReturn(e)
      \/ Finish(e)

SpecCapture == Init /\ [][NextCapture]_vars

\* ------------------------------------------------------ the life of the process
\* Here the process is followed from main's first statement to its exit; the
\* builder and the exchanges stay as they are.
lvars == <<batch, call, uuid, hasher, crashed, ex, db, tasks>>

Running == proc.exit = "running"

\* main executes its next statement.
MainStep ==
    /\ Running
    /\ proc.cleanup = 0
    /\ proc.pc <= Len(MainSteps)
    /\ CanExec(proc, MainSteps[proc.pc])
    /\ \E cfg \in Configs, addr \in Addrs, o \in Results :
         proc' = Exec(proc, MainSteps[proc.pc], cfg, addr, o)
    /\ UNCHANGED lvars

\* cleanup runs its next deferred close.
CleanupStep ==
    /\ Running
    /\ proc.cleanup \in 1..Len(CleanupDefers)
    /\ \E o \in Results :
         proc' = CloseResource(proc, RunOrder(CleanupDefers)[proc.cleanup], o)
    /\ UNCHANGED lvars

\* The deferred calls are done and the process ends.
Exit ==
    /\ Running
    /\ proc.cleanup = Len(CleanupDefers) + 1
    /\ proc' = ProcessEnd(proc)
    /\ UNCHANGED lvars

\* The operating system delivers SIGINT or SIGTERM: into sigChan (buffered, one
\* place) once signal.Notify has registered it, and with the default action,
\* which ends the process, before that.
Signal ==
    /\ Running
    /\ proc.sig = "none" /\ proc.sigChan = "empty"
    /\ \E s \in {"SIGINT", "SIGTERM"} :
         proc' = IF proc.sigReg
                 THEN Logged([proc EXCEPT !.sigChan = s], "signal")
                 ELSE Logged([proc EXCEPT !.exit = "killed"], "signal")
    /\ UNCHANGED lvars

\* How the Serve task ends with err: it panics, or it returns.
ServeEnds(p, err) ==
    IF ServePanics(err)
    THEN Logged([p EXCEPT !.serveErr = err, !.panicking = TRUE, !.exit = "2"],
                "servePanic")
    ELSE [p EXCEPT !.serveErr = err, !.serve = "returned"]

\* The Serve task chooses its transport and listens.  On a socket, listenSock
\* comes first and its error panics; ListenAndServe, and Serve on the socket,
\* return http.ErrServerClosed at once when Shutdown was called before.
ServeListen ==
    /\ Running
    /\ proc.serve = "spawned"
    /\ \E o \in Results :
         LET t == Transport(proc.addr)
             p == [proc EXCEPT !.transport = t.kind, !.sock = t.target]
         IN  proc' = IF t.kind = "unix"
                     THEN IF o = "err"
                          THEN Logged([p EXCEPT !.serveErr = "listen", !.panicking = TRUE,
                                                !.exit = "2"], "servePanic")
                          ELSE [p EXCEPT !.serve = "listened"]
                     ELSE IF proc.shut THEN ServeEnds(p, "http.ErrServerClosed")
                     ELSE IF o = "err" THEN ServeEnds(p, "listen")
                     ELSE Logged([p EXCEPT !.serve = "accepting"], "listening")
    /\ UNCHANGED lvars

\* serveSock(s, sock): s.Server.Serve(sock) on the socket that listens.
ServeSock ==
    /\ Running
    /\ proc.serve = "listened"
    /\ proc' = IF proc.shut THEN ServeEnds(proc, "http.ErrServerClosed")
               ELSE Logged([proc EXCEPT !.serve = "accepting"], "listening")
    /\ UNCHANGED lvars

\* The accept loop ends: with an error of its own, or, once Shutdown was called,
\* with http.ErrServerClosed.
ServeReturn ==
    /\ Running
    /\ \/ proc.serve = "accepting" /\ proc' = ServeEnds(proc, "accept")
       \/ proc.serve = "closed" /\ proc' = ServeEnds(proc, "http.ErrServerClosed")
    /\ UNCHANGED lvars

\* An exchange served by the accepting server pushes a record to the writer.
ServePush ==
    /\ Running
    /\ proc.serve = "accepting"
    /\ proc.pending + proc.flushed < MaxPushed
    /\ proc' = [proc EXCEPT !.pending = proc.pending + 1]
    /\ UNCHANGED lvars

\* The writer's background task flushes on its timer.
WriterTick ==
    /\ Running
    /\ proc.writer = "running"
    /\ proc.stop # "closed"
    /\ proc.pending > 0
    /\ proc' = [proc EXCEPT !.pending = 0, !.flushed = proc.flushed + proc.pending]
    /\ UNCHANGED lvars

\* The writer's background task sees the closed stop channel, flushes what it
\* holds and ends.
WriterStop ==
    /\ Running
    /\ proc.writer = "running"
    /\ proc.stop = "closed"
    /\ proc' = Logged([proc EXCEPT !.pending = 0, !.writer = "stopped",
                                    !.flushed = proc.flushed + proc.pending],
                       "finalFlush")
    /\ UNCHANGED lvars

NextLife ==
    \/ MainStep
    \/ CleanupStep
    \/ Exit
    \/ Signal
    \/ ServeListen
    \/ ServeSock
    \/ ServeReturn
    \/ ServePush
    \/ WriterTick
    \/ WriterStop

SpecLife == Init /\ [][NextLife]_vars

\* ------------------------------------------------------------- the database
\* ConnectDB and CreateDefaultTable called with any configuration; the rest of
\* the program stays as it is.
dvars == <<batch, call, uuid, hasher, crashed, ex, proc, tasks>>

\* ConnectDB(&cfg) while no connection is held.
Connect ==
    /\ db.conn = "nil"
    /\ \E cfg \in DbConfigs, o \in Results :
         LET r == ConnectDB(cfg, o)
         IN  db' = [db EXCEPT !.conn = r.conn,
                              !.engine = IF r.conn = "open" THEN cfg.Driver ELSE db.engine,
                              !.last = [NoDbCall EXCEPT !.fn = "ConnectDB", !.cfg = cfg,
                                          !.o = o, !.conn = r.conn, !.err = r.err,
                                          !.opened = r.opened, !.before = db.store]]
    /\ UNCHANGED dvars

\* CreateDefaultTable(&cfg, conn) on the connection held: conn.Exec runs the
\* statement it is handed against the store.
Provision ==
    /\ db.conn = "open"
    /\ \E cfg \in DbConfigs, o \in Results :
         LET stmt == CreateDefaultTable(cfg, db.conn, o).stmt
             x == ConnExec(db.store, db.engine, stmt, o, 1)
             r == CreateDefaultTable(cfg, db.conn, IF x.err = "nil" THEN "ok" ELSE "err")
         IN  db' = [db EXCEPT !.store = IF stmt = NoStmt THEN db.store ELSE x.store,
                              !.last = [NoDbCall EXCEPT !.fn = "CreateDefaultTable",
                                          !.cfg = cfg, !.o = o, !.conn = db.conn,
                                          !.err = r.err, !.panic = r.panic,
                                          !.stmt = stmt, !.before = db.store]]
    /\ UNCHANGED dvars

\* conn.Close()
Disconnect ==
    /\ db.conn = "open"
    /\ db' = [db EXCEPT !.conn = "nil", !.last = NoDbCall]
    /\ UNCHANGED dvars

NextDb ==
    \/ Connect
    \/ Provision
    \/ Disconnect

SpecDb == Init /\ [][NextDb]_vars

\* ------------------------------------------------- two invocations side by side
\* BuildValues reads and writes the package variables uuid and hasher without a
\* lock.  Here two tasks run it on records that convert without an error, one
\* statement on the shared objects at a time; the rest stays as it is.
rvars == <<batch, call, crashed, ex, proc, db>>

\* Task t has taken a step and is now tk: the invocations running at that
\* moment have overlapped.
Stepped(t, tk) ==
    LET others == \E s \in Invokers : s # t /\ Active(tasks[s])
    IN  [s \in Invokers |->
           IF s = t THEN [tk EXCEPT !.overlapped = tk.overlapped \/ others]
           ELSE IF Active(tasks[s]) THEN [tasks[s] EXCEPT !.overlapped = TRUE]
           ELSE tasks[s]]

\* BuildValues(data) is called: the locals, then hasher.New().
Invoke(t) ==
    /\ tasks[t].pc = "idle"
    /\ \E recs \in RaceBatches :
         tasks' = Stepped(t, [tasks[t] EXCEPT !.pc = "uuid.New", !.records = recs, !.i = 1])
    /\ hasher' = HasherNew(hasher)
    /\ UNCHANGED <<uuid, rvars>>

\* e = uuid.New()
StmtUuidNew(t) ==
    /\ tasks[t].pc = "uuid.New"
    /\ uuid' = UuidNew(uuid)
    /\ tasks' = Stepped(t, [tasks[t] EXCEPT !.pc = "uuid.MarshalBinary"])
    /\ UNCHANGED <<hasher, rvars>>

\* args[idx], e = uuid.MarshalBinary()
StmtMarshalBinary(t) ==
    /\ tasks[t].pc = "uuid.MarshalBinary"
    /\ tasks' = Stepped(t, [tasks[t] EXCEPT !.pc = "hasher.Reset",
                                             !.id = UuidMarshalBinary(uuid)])
    /\ UNCHANGED <<uuid, hasher, rvars>>

\* hasher.Reset()
StmtReset(t) ==
    /\ tasks[t].pc = "hasher.Reset"
    /\ hasher' = HasherReset(hasher)
    /\ tasks' = Stepped(t, [tasks[t] EXCEPT !.pc = "hasher.WriteString"])
    /\ UNCHANGED <<uuid, rvars>>

\* _, err = hasher.WriteString(rec.Request)
StmtWriteString(t) ==
    /\ tasks[t].pc = "hasher.WriteString"
    /\ hasher' = HasherWriteString(hasher, tasks[t].records[tasks[t].i].Request)
    /\ tasks' = Stepped(t, [tasks[t] EXCEPT !.pc = "hasher.Hash"])
    /\ UNCHANGED <<uuid, rvars>>

\* args[idx+1] = fmt.Sprintf("%016x", hasher.Hash()), the rest of the row, and
\* the next record or the return.
StmtHash(t) ==
    /\ tasks[t].pc = "hasher.Hash"
    /\ LET tk == tasks[t]
            row == [id |-> tk.id, req_hash |-> Hex16(HasherHash(hasher)),
                    line |-> tk.records[tk.i].Request]
       IN  tasks' = Stepped(t, [tk EXCEPT !.rows = Append(tk.rows, row),
                                          !.i = tk.i + 1,
                                          !.pc = IF tk.i = Len(tk.records)
                                                 THEN "done" ELSE "uuid.New"])
    /\ UNCHANGED <<uuid, hasher, rvars>>

NextRace ==
    \E t \in Invokers :
      \/ Invoke(t)
      \/ StmtUuidNew(t)
      \/ StmtMarshalBinary(t)
      \/ StmtReset(t)
      \/ StmtWriteString(t)
      \/ StmtHash(t)

SpecRace == Init /\ [][NextRace]_vars

\* ------------------------------------------------- vocabulary of the properties
\* The input of the invocation in call, read off the batch and the behaviour of
\* uuid and hasher, not off the builder's result.
N == Len(call.batch)
Idx == 1..N
IsTx(i) == call.batch[i].type = "TxRecord"
EmptyLine(i) == IsTx(i) /\ call.batch[i].Request = ""
NewFails(i) == IsTx(i) /\ call.env[i] = "newErr"
IdFails(i) == IsTx(i) /\ call.env[i] \in {"newErr", "marshalErr"}
WriteFails(i) == IsTx(i) /\ ~IdFails(i) /\ ~EmptyLine(i) /\ call.env[i] = "writeErr"
Valid(i) == IsTx(i) /\ ~EmptyLine(i) /\ call.env[i] = "ok"
Fatal(i) == (EmptyLine(i) /\ ~IdFails(i)) \/ WriteFails(i)
ValidIdx == {i \in Idx : Valid(i)}
\* The number of valid records before record i.
Rank(i) == Cardinality({j \in ValidIdx : j < i})

\* The four columns of a row that come from the record itself.
RowTail(rec) ==
    << Hex16(<<rec.Request>>), StrArg(rec.Headers.bytes),
       IF rec.Body.nil \/ rec.Body.bytes = <<>> THEN NullBytes ELSE ValidBytes(rec.Body.bytes),
       FormatAt(rec.At) >>

\* Row k (from 0) of an argument list, without its id; the rows that were written.
TailOfRow(elems, k) == SubSeq(elems, numColumns * k + 2, numColumns * k + numColumns)
WrittenRows(elems) ==
    {k \in 0..((Len(elems) \div numColumns) - 1) :
        \A c \in 1..numColumns : elems[numColumns * k + c] # NilArg}

BagOfSeq(seq) ==
    [x \in {seq[i] : i \in DOMAIN seq} |-> Cardinality({i \in DOMAIN seq : seq[i] = x})]
RECURSIVE BagOfRows(_, _)
BagOfRows(elems, rows) ==
    IF rows = {} THEN EmptyBag
    ELSE LET k == CHOOSE r \in rows : TRUE
         IN  SetToBag({}) (+) BagOfSeq(<<TailOfRow(elems, k)>>) (+) BagOfRows(elems, rows \ {k})

\* What becomes of a batch element when it is consumed: a TxRecord as it is, any
\* other element as the placeholder record.
AsRecord(d) == IF d.type = "TxRecord" THEN d ELSE ZeroTxRecord

CountOf(str, ch) == Cardinality({i \in DOMAIN str : str[i] = ch})

\* ---------------------------------------------------------------- properties
\* C1: a batch of valid records and records whose identity generation or id
\* marshalling fails yields an INSERT statement whose rows are exactly the valid
\* records, wherever the failing records sit.
C1_FailedRecordFallsOutAlone ==
    (call.active /\ (\E i \in Idx : IdFails(i)) /\ (\E i \in Idx : Valid(i))
       /\ (\A i \in Idx : (IdFails(i) /\ ~EmptyLine(i)) \/ Valid(i)))
    => /\ ~call.ret.panicked
       /\ call.ret.stmt = RenderStatement(Cardinality(ValidIdx))
       /\ ~call.ret.args.nil
       /\ Len(call.ret.args.elems) = numColumns * Cardinality(ValidIdx)
       /\ \A i \in ValidIdx :
            TailOfRow(call.ret.args.elems, Rank(i)) = RowTail(call.batch[i])

\* C2: every element of the batch is consumed exactly once: as a row of the
\* returned argument list or as a write to the failure sink.
C2_ConsumedExactlyOnce ==
    (call.active /\ ~call.ret.panicked)
    => BagOfSeq([i \in Idx |-> RowTail(AsRecord(call.batch[i]))])
       = BagOfRows(call.ret.args.elems, WrittenRows(call.ret.args.elems))
         (+) BagOfSeq([k \in DOMAIN call.ret.writes |-> RowTail(call.ret.writes[k].rec)])

\* C3: a non-empty statement has one five-placeholder group per converted row and
\* the returned argument list has one entry per placeholder.
C3_PlaceholdersMatchArgs ==
    (call.active /\ ~call.ret.panicked /\ call.ret.stmt # <<>>)
    => /\ CountOf(call.ret.stmt, "(") = call.bv.count
       /\ CountOf(call.ret.stmt, "?") = numColumns * CountOf(call.ret.stmt, "(")
       /\ Len(call.ret.args.elems) = CountOf(call.ret.stmt, "?")

\* C4: whenever BuildValues returns an argument list, it has rowCount * 5 entries.
C4_ArgsLenIsRowCountTimesColumns ==
    (call.active /\ ~call.bv.args.nil)
    => Len(call.bv.args.elems) = call.bv.count * numColumns

\* C5: every record in the failedRecords BuildValues returns is written to the
\* failure log stream by the same invocation of the statement builder.
C5_FailedRecordsAreSunk ==
    call.active
    => /\ Len(call.ret.writes) = Len(call.bv.failed)
       /\ \A k \in 1..Len(call.bv.failed) : call.ret.writes[k].rec = call.bv.failed[k]

\* C6: if identity generation or id marshalling fails for a record of the batch,
\* BuildValues returns a non-nil error.
C6_FailureKeepsError ==
    (call.active /\ \E i \in Idx : IdFails(i)) => call.bv.err # NoErr

\* C7: a batch of N valid records gives rowCount N, 5 * N assigned arguments, no
\* failed record and a nil error.
C7_AllValid ==
    (call.active /\ \A i \in Idx : Valid(i))
    => /\ call.bv.count = N
       /\ ~call.bv.args.nil
       /\ Len(call.bv.args.elems) = numColumns * N
       /\ \A a \in 1..Len(call.bv.args.elems) : call.bv.args.elems[a] # NilArg
       /\ call.bv.failed = <<>>
       /\ call.bv.err = NoErr

C7_Witness ==
    call.active /\ N >= 2 /\ (\A i \in Idx : Valid(i)) /\ call.bv.count = N

\* C8: when identity generation fails for exactly one record and the others are
\* valid, rowCount is N - 1 and failedRecords is exactly that record.
C8_OneIdentityFailure ==
    call.active
    => \A f \in Idx :
         (NewFails(f) /\ \A i \in Idx \ {f} : Valid(i))
         => /\ call.bv.count = N - 1
            /\ call.bv.failed = <<call.batch[f]>>

C8_Witness ==
    call.active /\ N = 3 /\ Valid(1) /\ NewFails(2) /\ Valid(3)
    /\ call.bv.count = 2 /\ Len(call.bv.failed) = 1

\* C9 as stated: a batch with a record whose correlation line is empty gives
\* rowCount 0, nil arguments and the empty_request error, whatever the other
\* records are and whether or not identity generation works for that record.
C9_AnyEmptyLineRejects ==
    (call.active /\ \E i \in Idx : EmptyLine(i))
    => /\ call.bv.count = 0
       /\ call.bv.args.nil
       /\ call.bv.err = ErrEmptyRequest

\* C9 amended: a batch with an empty-line record for which identity generation
\* and id marshalling succeed, and in which no earlier record's hasher write
\* fails, gives rowCount 0, nil arguments, no failed record and empty_request,
\* whatever the other records are.
C9_ReachedEmptyLineRejects ==
    (call.active
       /\ \E i \in Idx : /\ EmptyLine(i) /\ ~IdFails(i)
                         /\ \A j \in 1..(i - 1) : ~WriteFails(j))
    => /\ call.bv.count = 0
       /\ call.bv.args.nil
       /\ call.bv.failed = <<>>
       /\ call.bv.err = ErrEmptyRequest

C9_Witness ==
    call.active /\ N = 3 /\ Valid(1) /\ IdFails(2) /\ EmptyLine(3) /\ ~IdFails(3)
    /\ call.bv.err = ErrEmptyRequest

\* C10: when a record with an empty correlation line is reached or the hasher's
\* write fails, the statement builder returns the empty statement and nil
\* arguments: no row of the batch is returned.
C10_FatalReturnsNothing ==
    (call.active /\ \E i \in Idx : Fatal(i))
    => /\ ~call.ret.panicked
       /\ call.ret.stmt = <<>>
       /\ call.ret.args = NilArgs

C10_Witness ==
    call.active /\ N >= 2 /\ Valid(1) /\ Fatal(2) /\ call.ret.stmt = <<>>

\* The identity drawn for record i of an invocation that ran through the whole
\* batch: uuid.New() is called once per TxRecord, and a call that works hands out
\* the next value.
NewWorks(i) == IsTx(i) /\ call.env[i] # "newErr"
IdOf(i) ==
    uuid.gen - Cardinality({j \in Idx : NewWorks(j)})
             + Cardinality({j \in Idx : j <= i /\ NewWorks(j)})

\* The elements that are not converted, as they are recorded as failed.
RECURSIVE FailedFrom(_)
FailedFrom(i) ==
    IF i > N THEN <<>>
    ELSE (IF Valid(i) THEN <<>> ELSE <<AsRecord(call.batch[i])>>) \o FailedFrom(i + 1)

\* C11: when BuildValues takes no batch-fatal return, failedRecords and rowCount
\* account for every input element: each is counted as a row or listed as failed,
\* none is both.
C11_FailedPlusRowsIsInput ==
    (call.active /\ ~\E i \in Idx : Fatal(i))
    => /\ Len(call.bv.failed) + call.bv.count = N
       /\ call.bv.count = Cardinality(ValidIdx)
       /\ call.bv.failed = FailedFrom(1)

C11_Witness ==
    call.active /\ N = 3 /\ Valid(1) /\ ~IsTx(2) /\ IdFails(3)
    /\ call.bv.count = 1 /\ Len(call.bv.failed) = 2

\* C12: the k-th converted record, in input order, fills argument slots 5k..5k+4
\* with (id, req_hash, headers, body, created_at), all from that record; failed
\* records leave no gap and do not reorder the rows.
C12_RowsInInputOrder ==
    (call.active /\ ~call.bv.args.nil)
    => /\ call.bv.count = Cardinality(ValidIdx)
       /\ \A i \in ValidIdx :
            /\ call.bv.args.elems[numColumns * Rank(i) + 1] = BinArg(IdOf(i))
            /\ TailOfRow(call.bv.args.elems, Rank(i)) = RowTail(call.batch[i])

C12_Witness ==
    call.active /\ N = 3 /\ Valid(1) /\ IdFails(2) /\ Valid(3)
    /\ call.batch[1] # call.batch[3]
    /\ TailOfRow(call.bv.args.elems, 1) = RowTail(call.batch[3])

\* C20: the body argument of a converted record is SQL NULL when the record's
\* body is nil or has length zero, and otherwise a valid value holding exactly the
\* body's bytes; an empty body is never stored as an empty non-null value.
C20_EmptyBodyIsNull ==
    (call.active /\ ~call.bv.args.nil)
    => \A i \in ValidIdx :
         LET arg == call.bv.args.elems[numColumns * Rank(i) + 4]
             body == call.batch[i].Body
         IN  /\ (body.nil \/ Len(body.bytes) = 0) => arg = NullBytes
             /\ (~body.nil /\ Len(body.bytes) > 0)
                  => arg = [any |-> "sql.Null", Valid |-> TRUE, V |-> body.bytes]
             /\ arg # [any |-> "sql.Null", Valid |-> TRUE, V |-> <<>>]

C20_Witness ==
    /\ call.active /\ ~call.bv.args.nil /\ call.bv.count = 3
    /\ \E i \in ValidIdx : call.batch[i].Body.nil
    /\ \E i \in ValidIdx : ~call.batch[i].Body.nil /\ call.batch[i].Body.bytes = <<>>
    /\ \E i \in ValidIdx : call.batch[i].Body.bytes # <<>>

\* C21: the req_hash of a row is the digest of the record's correlation line
\* alone, whatever the record's position, the records before it and the batches
\* before this one: records with the same line get the same req_hash.
C21_HashOfLineAlone ==
    (call.active /\ ~call.bv.args.nil)
    => /\ \A i \in ValidIdx :
            call.bv.args.elems[numColumns * Rank(i) + 2]
              = [any |-> "string", hex16 |-> <<call.batch[i].Request>>]
       /\ \A i, j \in ValidIdx :
            call.batch[i].Request = call.batch[j].Request
            => call.bv.args.elems[numColumns * Rank(i) + 2]
                 = call.bv.args.elems[numColumns * Rank(j) + 2]

C21_Witness ==
    /\ call.active /\ ~call.bv.args.nil /\ N = 2 /\ Valid(1) /\ Valid(2)
    /\ call.batch[1].Request # call.batch[2].Request
    /\ call.batch[2].Request = "GET /a"
    /\ uuid.gen = 3
    /\ call.bv.args.elems[numColumns + 2] = [any |-> "string", hex16 |-> <<"GET /a">>]

\* The ids of the rows an invocation returned.
RowId(c, k) == c.bv.args.elems[numColumns * k + 1]
Rows(c) == 0..(c.bv.count - 1)

\* C22: each converted row carries the id drawn for that record alone; with a
\* generator that never repeats a value, no id is written into two rows of a
\* batch, none into rows of two batches, and the id drawn for a record that then
\* fails is not used for a later row.
C22_IdsNeverRepeat ==
    /\ []((call.active /\ ~call.bv.args.nil)
          => /\ \A k1, k2 \in Rows(call) : k1 # k2 => RowId(call, k1) # RowId(call, k2)
             /\ \A k \in Rows(call) :
                  RowId(call, k).any = "[]byte" /\ RowId(call, k).uuid \in 1..uuid.gen
             /\ \A i \in ValidIdx : RowId(call, Rank(i)) = BinArg(IdOf(i))
             /\ \A i \in Idx : \A j \in ValidIdx :
                  (IsTx(i) /\ call.env[i] = "marshalErr" /\ i < j)
                  => RowId(call, Rank(j)).uuid > IdOf(i))
    /\ [][(~call.active /\ call'.active /\ ~call'.bv.args.nil)
          => \A k \in Rows(call') : RowId(call', k).uuid > uuid.gen]_vars

C22_Witness ==
    /\ call.active /\ ~call.bv.args.nil /\ N = 2
    /\ call.env[1] = "marshalErr" /\ Valid(2)
    /\ uuid.gen = 3 /\ RowId(call, 0) = BinArg(3)

\* The elements of the batch that are not TxRecords.
NonTx == {i \in Idx : ~IsTx(i)}
LastNonTx == CHOOSE i \in NonTx : \A j \in NonTx : j <= i

\* C23: a batch element that is not a TxRecord is a per-record failure: one
\* zero-value record is appended to failedRecords for it, it is not counted as a
\* row, the records after it are still converted, and the error returned names
\* the last such element (stated for batches whose other records are valid).
C23_NonRecordIsPerRecordFailure ==
    (call.active /\ NonTx # {} /\ \A i \in Idx : ~IsTx(i) \/ Valid(i))
    => /\ call.bv.count = Cardinality(ValidIdx)
       /\ call.bv.failed = [k \in 1..Cardinality(NonTx) |-> ZeroTxRecord]
       /\ call.bv.err = [err |-> "invalid record", elem |-> call.batch[LastNonTx]]

\* C24: when a write of a failed record to the failure log fails, the statement
\* builder logs that, still writes every remaining failed record, and returns
\* the empty statement and nil arguments without panicking.
C24_SinkFailureOnlyLogged ==
    (call.active /\ \E k \in DOMAIN call.ret.writes : ~call.ret.writes[k].ok)
    => /\ ~call.ret.panicked
       /\ call.ret.stmt = <<>>
       /\ call.ret.args = NilArgs
       /\ Len(call.ret.writes) = Len(call.bv.failed)
       /\ \A k \in DOMAIN call.ret.writes : call.ret.writes[k].rec = call.bv.failed[k]
       /\ Cardinality({l \in DOMAIN call.ret.logs : call.ret.logs[l].log = "can't log fails"})
            = Cardinality({k \in DOMAIN call.ret.writes : ~call.ret.writes[k].ok})
       /\ call.ret.logs[1].log = "error building values"

C24_Witness ==
    /\ call.active /\ Len(call.ret.writes) = 2
    /\ ~call.ret.writes[1].ok /\ call.ret.writes[2].ok
    /\ call.ret.stmt = <<>>

\* --------------------------------------------- properties of the middleware
\* The records an exchange is to push, stated from the request, the status and
\* the bytes that reached the client.
IsRequestRecord(rec, x) ==
    /\ rec.type = "TxRecord"
    /\ rec.Request = x.req.Method \o " " \o x.req.URL
    /\ rec.Headers = DumpRequest(x.req)
    /\ rec.Body = IF x.req.Body.nil THEN NilBytes ELSE Bytes(x.req.Body.data)
IsResponseRecord(rec, x) ==
    /\ rec.type = "TxRecord"
    /\ rec.Request = x.req.Method \o " " \o x.req.URL
    /\ rec.Headers = ResponseHead(x.status)
    /\ rec.Body = Bytes(x.rlw)
Finished(x) == x.pc = "done"

\* C13: an exchange that ends without a capture error has pushed exactly two
\* records, the request record and then the response record, once each, both
\* with the correlation line "METHOD URL" of the request.
C13_TwoRecordsPerExchange ==
    \A e \in Exchanges :
      (Finished(ex[e]) /\ ex[e].fault = "none")
      => /\ Len(ex[e].pushes) = 2
         /\ IsRequestRecord(ex[e].pushes[1], ex[e])
         /\ IsResponseRecord(ex[e].pushes[2], ex[e])
         /\ ex[e].pushes[1].Request = ex[e].pushes[2].Request

C13_Witness ==
    \E e \in Exchanges :
      /\ Finished(ex[e]) /\ ex[e].fault = "none" /\ ~ex[e].req.Body.nil
      /\ ex[e].rlw # <<>> /\ Len(ex[e].pushes) = 2

\* C14: in every interleaving, an exchange pushes its request record before its
\* handler is invoked and its response record only after the handler returned.
C14_RequestBeforeResponse ==
    /\ [](\A e \in Exchanges :
            /\ ex[e].called => (Len(ex[e].pushes) >= 1
                                /\ IsRequestRecord(ex[e].pushes[1], ex[e]))
            /\ Len(ex[e].pushes) >= 2 => ex[e].pc = "done")
    /\ [][\A e \in Exchanges :
            Len(ex'[e].pushes) > Len(ex[e].pushes)
            => \/ /\ ex[e].pushes = <<>> /\ ~ex[e].called
                  /\ Len(ex'[e].pushes) = 1
               \/ /\ Len(ex[e].pushes) = 1 /\ ex[e].pc = "handled"
                  /\ Len(ex'[e].pushes) = 2
                  /\ ex'[e].pushes[1] = ex[e].pushes[1]
                  /\ IsResponseRecord(ex'[e].pushes[2], ex'[e])]_vars

C14_Witness ==
    \E e, f \in Exchanges :
      /\ e # f
      /\ ex[e].pc = "handling" /\ Len(ex[e].pushes) = 1
      /\ ex[f].pc = "done" /\ Len(ex[f].pushes) = 2

\* C15 as stated: an exchange pushes 0 records when dumping the request head
\* fails, 1 when draining the body or rendering the response fails, 2 on success.
C15_PushesByFailure ==
    \A e \in Exchanges :
      Finished(ex[e])
      => /\ ex[e].fault = "dump" => Len(ex[e].pushes) = 0
         /\ ex[e].fault \in {"read", "line", "headers"} => Len(ex[e].pushes) = 1
         /\ ex[e].fault = "none" => Len(ex[e].pushes) = 2

\* C15 amended: 0 records when dumping the request head or draining the body
\* fails, 1 when rendering the response fails, 2 on success; no record is pushed
\* twice.
C15_PushesByFailureAmended ==
    \A e \in Exchanges :
      /\ Finished(ex[e])
         => /\ ex[e].fault \in {"dump", "read"} => Len(ex[e].pushes) = 0
            /\ ex[e].fault \in {"line", "headers"} => Len(ex[e].pushes) = 1
            /\ ex[e].fault = "none" => Len(ex[e].pushes) = 2
      /\ \A i, j \in 1..Len(ex[e].pushes) : i # j => ex[e].pushes[i] # ex[e].pushes[j]

C15_Witness ==
    \E e, f \in Exchanges :
      /\ Finished(ex[e]) /\ ex[e].fault = "read" /\ ex[e].pushes = <<>>
      /\ Finished(ex[f]) /\ ex[f].fault = "headers" /\ Len(ex[f].pushes) = 1

\* C16: when dumping the request head or draining the body fails, the exchange
\* is aborted with status 400, pushes no record and its handler is never invoked.
C16_ReadFailureAborts ==
    \A e \in Exchanges :
      ex[e].fault \in {"dump", "read"}
      => /\ ex[e].status = 400
         /\ ex[e].aborted
         /\ ex[e].pushes = <<>>
         /\ ~ex[e].called
         /\ ex[e].under = <<>>
         /\ ex[e].pc = "done"

C16_Witness ==
    \E e \in Exchanges :
      ex[e].fault = "read" /\ ex[e].req.Body.data # <<>> /\ ex[e].status = 400

\* C17: when rendering the response line or headers fails, the exchange is
\* aborted with status 500 and pushes no response record; its request record
\* stays pushed, one push in all.
C17_RenderFailureKeepsRequest ==
    \A e \in Exchanges :
      ex[e].fault \in {"line", "headers"}
      => /\ ex[e].status = 500
         /\ ex[e].aborted
         /\ ex[e].called
         /\ Len(ex[e].pushes) = 1
         /\ IsRequestRecord(ex[e].pushes[1], ex[e])

C17_Witness ==
    \E e \in Exchanges :
      ex[e].fault = "line" /\ ex[e].under # <<>> /\ Len(ex[e].pushes) = 1

\* C18: whatever the handler writes to the response, through Write or through
\* WriteString, is forwarded and captured in write order: the capture buffer and
\* the body of the response record hold all that was written.
C18_AllWritesCaptured ==
    \A e \in Exchanges :
      /\ ex[e].rlw = ex[e].under
      /\ (Finished(ex[e]) /\ ex[e].fault = "none")
         => ex[e].pushes[2].Body = Bytes(ex[e].under)

\* C19: the handler of a request with a body reads exactly the bytes the client
\* sent, and the request record holds the same bytes; a request without a body
\* stream keeps it so.
C19_BodyReplayed ==
    \A e \in Exchanges :
      ex[e].called
      => IF ex[e].req.Body.nil
         THEN /\ ex[e].body = NoStream
              /\ ex[e].pushes[1].Body = NilBytes
         ELSE /\ ~ex[e].body.nil
              /\ ex[e].pc = "handling" => ReadAll(ex[e].body) = ex[e].req.Body.data
              /\ ex[e].pc \in {"handled", "done"} => ex[e].read = ex[e].req.Body.data
              /\ ex[e].pushes[1].Body = Bytes(ex[e].req.Body.data)

C19_Witness ==
    \E e \in Exchanges :
      /\ ex[e].pc = "handled" /\ ex[e].read = <<1, 2>>
      /\ ex[e].pushes[1].Body = Bytes(<<1, 2>>)

\* ------------------------------------------- properties of the process lifecycle
\* The place of an event in the process's history (0: it has not happened).
Happened(ev) == \E k \in DOMAIN proc.log : proc.log[k] = ev
Pos(ev) ==
    IF Happened(ev)
    THEN CHOOSE k \in DOMAIN proc.log :
           proc.log[k] = ev /\ \A j \in 1..(k - 1) : proc.log[j] # ev
    ELSE 0
\* The events of seq happen in the order of seq, none before the one it follows.
InOrder(seq) ==
    \A k \in 2..Len(seq) :
      Happened(seq[k]) => (Happened(seq[k - 1]) /\ Pos(seq[k - 1]) < Pos(seq[k]))
SignalReceived == proc.sig # "none"

\* C25: after a termination signal, first the HTTP server stops accepting, then
\* the background writer is signalled to stop, then the log file handles are
\* closed.
C25_ShutdownOrder ==
    /\ InOrder(<<"recvSignal", "Shutdown", "closeStop", "close dblog", "close reqlog">>)
    /\ (SignalReceived /\ ~Running)
       => (Happened("close dblog") /\ Happened("close reqlog"))

\* C26: once the writer was given the stop signal, its final flush of the
\* records pushed so far is over before a failure-log handle is closed and
\* before the process exits.
C26_FinalFlushBeforeClose ==
    (proc.stop = "closed"
       /\ (Happened("close dblog") \/ Happened("close reqlog") \/ ~Running))
    => /\ proc.writer = "stopped"
       /\ InOrder(<<"closeStop", "finalFlush", "close dblog">>)
       /\ Happened("finalFlush")

\* C27: cleanup attempts to close each of the db failure log, the request
\* failure log and the database connection exactly once; a close that fails
\* does not keep the others from being attempted.
C27_EveryCloseAttemptedOnce ==
    /\ \A r \in DOMAIN proc.closes : proc.closes[r] <= 1
    /\ proc.cleanup = Len(CleanupDefers) + 1
       => \A r \in DOMAIN proc.closes : proc.closes[r] = 1

C27_Witness ==
    /\ proc.cleanup = Len(CleanupDefers) + 1 /\ Happened("return")
    /\ "close dblog" \in proc.faults
    /\ proc.closes["reqlog"] = 1 /\ proc.closes["conn"] = 1

\* C28 as stated: startup provisions the schema, opens the failure-log handles,
\* builds the writer, starts its flush task, registers the termination signals
\* and starts accepting connections, in this order.
C28_StartupOrder ==
    InOrder(<<"CreateDefaultTable", "openDbLog", "openReqLog", "buildWriter",
              "startWriter", "signalNotify", "goServe", "listening">>)

\* C28 amended: startup provisions the schema, opens the failure-log handles,
\* registers the termination signals, builds the writer, starts its flush task
\* and starts accepting connections, in this order.
C28_StartupOrderAmended ==
    InOrder(<<"CreateDefaultTable", "openDbLog", "openReqLog", "signalNotify",
              "buildWriter", "startWriter", "goServe", "listening">>)

C28_Witness ==
    Happened("listening") /\ proc.writer = "running" /\ proc.sigReg

\* A fatal startup error: ConnectDB rejected the driver or the DSN, the dialect
\* is not supported, or a failure-log file could not be opened.
UnsupportedDialect ==
    Happened("ConnectDB") /\ proc.cfg.Driver \notin {"mysql", "sqlite3"}
FatalStartup ==
    \/ proc.connErr # "nil"
    \/ UnsupportedDialect
    \/ proc.faults \cap {"openDbLog", "openReqLog"} # {}

\* C29: a fatal startup error aborts startup: the background writer is never
\* started and the server never starts accepting connections.
C29_FatalStartupAborts ==
    FatalStartup
    => /\ proc.writer \notin {"running", "stopped"}
       /\ proc.serve \notin {"spawned", "accepting"}
       /\ ~Happened("startWriter") /\ ~Happened("goServe") /\ ~Happened("listening")
       /\ proc.pending = 0 /\ proc.flushed = 0
       /\ (Happened("CreateDefaultTable") \/ proc.faults # {}) => proc.exit = "2"

C29_Witness ==
    /\ proc.cfg.Driver = "mysql" /\ proc.connErr = "invalid DSN"
    /\ Happened("CreateDefaultTable") /\ ~Running

\* C30: after a termination signal the process exits with code 0 when Shutdown
\* returns no error and with code 1 when it returns an error, and with no other
\* code.
C30_ExitCodes ==
    (SignalReceived /\ Happened("Shutdown") /\ ~Running)
    => /\ proc.shutdownErr = "nil" => proc.exit = "0"
       /\ proc.shutdownErr # "nil" => proc.exit = "1"
       /\ proc.exit \in {"0", "1"}

\* ------------------------------------------------- properties of the database
SupportedDialects == {"mysql", "sqlite3"}
\* The dialect a configuration asks for: the override when set, else the driver.
AskedDialect(cfg) == IF cfg.Dialect # "" THEN cfg.Dialect ELSE cfg.Driver
Provisioned(store) ==
    store.tables = {"tx_log"} /\ store.indexes = {"ix_tx_log_hash"}

\* C31: the schema provisioner goes by the dialect override when it is set and
\* by the driver otherwise; for a dialect that is not supported it returns
\* 'unsupported SQL dialect' and executes nothing, also when the driver itself
\* names a supported dialect.
C31_DialectOverride ==
    db.last.fn = "CreateDefaultTable"
    => /\ AskedDialect(db.last.cfg) \notin SupportedDialects
          => /\ db.last.err = "unsupported SQL dialect"
             /\ ~db.last.panic
             /\ db.last.stmt = <<>>
             /\ db.store = db.last.before
       /\ AskedDialect(db.last.cfg) \in SupportedDialects
          => /\ db.last.stmt # <<>>
             /\ \A k \in DOMAIN db.last.stmt :
                  db.last.stmt[k].dialect = AskedDialect(db.last.cfg)

C31_Witness ==
    /\ db.last.fn = "CreateDefaultTable"
    /\ db.last.cfg.Driver = "sqlite3" /\ db.last.cfg.Dialect = "sqlite"
    /\ db.last.err = "unsupported SQL dialect"

\* C32: provisioning a store makes exactly one tx_log table and one index on
\* req_hash, and provisioning it again returns no error and leaves exactly
\* these, for each supported dialect.
C32_ProvisionTwice ==
    (db.last.fn = "CreateDefaultTable" /\ db.last.o = "ok"
       /\ AskedDialect(db.last.cfg) = db.engine
       /\ (db.last.before = [tables |-> {}, indexes |-> {}] \/ Provisioned(db.last.before)))
    => /\ db.last.err = "nil"
       /\ Provisioned(db.store)

C32_Witness ==
    /\ db.last.fn = "CreateDefaultTable" /\ db.last.o = "ok"
    /\ db.engine = "sqlite3" /\ AskedDialect(db.last.cfg) = "sqlite3"
    /\ Provisioned(db.last.before) /\ Provisioned(db.store)
    /\ db.last.err = "nil"

\* C33: ConnectDB opens nothing and returns 'invalid DB driver' when the driver
\* is empty, whatever the DSN; returns 'invalid DSN' when the driver is set and
\* the DSN is empty; and otherwise returns a connection only if opening works.
C33_ConnectDBChecks ==
    db.last.fn = "ConnectDB"
    => /\ db.last.cfg.Driver = ""
          => (db.last.err = "invalid DB driver" /\ db.last.conn = "nil" /\ ~db.last.opened)
       /\ (db.last.cfg.Driver # "" /\ db.last.cfg.Dsn = "")
          => (db.last.err = "invalid DSN" /\ db.last.conn = "nil" /\ ~db.last.opened)
       /\ (db.last.cfg.Driver # "" /\ db.last.cfg.Dsn # "")
          => /\ db.last.opened
             /\ db.last.conn = "open" <=> db.last.o = "ok"
             /\ db.last.conn = "open" <=> db.last.err = "nil"

C33_Witness ==
    /\ db.last.fn = "ConnectDB"
    /\ db.last.cfg.Driver = "" /\ db.last.cfg.Dsn = ""
    /\ db.last.err = "invalid DB driver"

\* C34: Serve takes the filesystem socket exactly when the listen address
\* starts with "unix:", listening on the path after the prefix, and TCP on the
\* whole address otherwise; a listen or serve error other than 'server closed'
\* makes it panic, the 'server closed' of a shutdown makes it return.
C34_ServeTransport ==
    /\ proc.transport # "none"
       => LET a == proc.addr
              unix == /\ Len(a) >= 5
                      /\ a[1] = "u" /\ a[2] = "n" /\ a[3] = "i" /\ a[4] = "x" /\ a[5] = ":"
          IN  /\ proc.transport = "unix" <=> unix
              /\ proc.transport = "tcp" <=> ~unix
              /\ unix => proc.sock = [k \in 1..(Len(a) - 5) |-> a[k + 5]]
              /\ ~unix => proc.sock = a
    /\ proc.serveErr \in {"listen", "accept"}
       => (proc.panicking /\ proc.exit = "2" /\ proc.serve # "returned")
    /\ proc.serveErr = "http.ErrServerClosed"
       => (proc.shut /\ proc.serve = "returned" /\ ~Happened("servePanic"))
    /\ Happened("servePanic") => proc.serveErr \in {"listen", "accept"}

C34_Witness ==
    /\ proc.transport = "unix" /\ proc.sock = <<"/", "s">>
    /\ proc.serveErr = "http.ErrServerClosed" /\ proc.serve = "returned"
    /\ Happened("listening")

\* C35: the statement builder returns a (statement, arguments) pair for every
\* batch handed to it, the empty batch included; it never panics, and the flush
\* task stays alive.
C35_BuilderNeverPanics ==
    call.active => (~call.ret.panicked /\ ~crashed)

\* C36: once the writer has been signalled to stop, no exchange pushes a record
\* to it any more, however the request tasks interleave with the shutdown.
C36_NoPushAfterStop ==
    [][proc.stop = "closed"
         => proc'.pending + proc'.flushed <= proc.pending + proc.flushed]_vars

\* C37: whenever the process has ended after main received a termination
\* signal, with exit code 1 as with any other, cleanup has run: both failure
\* logs and the database connection have been closed.
C37_CleanupOnEveryExit ==
    (SignalReceived /\ ~Running)
    => \A r \in DOMAIN proc.closes : proc.closes[r] = 1

\* C38: with exchanges handled at the same time, the response record of an
\* exchange holds only bytes written to that exchange's response and carries
\* the correlation line of that exchange's request.
C38_ResponseRecordIsOwn ==
    \A e \in Exchanges :
      (Finished(ex[e]) /\ Len(ex[e].pushes) = 2)
      => /\ ex[e].pushes[2].Request = CorrelationLine(ex[e].req)
         /\ \A k \in DOMAIN ex[e].pushes[2].Body.bytes :
              \E j \in 1..MaxWrites : <<ex[e].pushes[2].Body.bytes[k]>> = Chunk(e, j)

C38_Witness ==
    \E e, f \in Exchanges :
      /\ e # f
      /\ Finished(ex[e]) /\ Len(ex[e].pushes) = 2 /\ ex[e].pushes[2].Body.bytes # <<>>
      /\ Finished(ex[f]) /\ Len(ex[f].pushes) = 2 /\ ex[f].pushes[2].Body.bytes # <<>>
      /\ ex[e].pushes[2].Request # ex[f].pushes[2].Request

\* The rows an invocation returned carry the hash of their own line and an id
\* no other row of any invocation carries.
RowsAreOwn(t) ==
    \A k \in DOMAIN tasks[t].rows :
      LET row == tasks[t].rows[k]
      IN  /\ row.req_hash = Hex16(<<row.line>>)
          /\ row.id # NilArg /\ row.id # BinArg(0)
          /\ \A s \in Invokers : \A j \in DOMAIN tasks[s].rows :
               tasks[s].rows[j].id = row.id => (s = t /\ j = k)

\* C39: when two invocations of BuildValues run at the same time, every row
\* returned still carries the req_hash of its own correlation line and an id
\* generated for it alone.
C39_ConcurrentRowsAreOwn ==
    \A t \in Invokers : tasks[t].pc = "done" => RowsAreOwn(t)

\* C39, amended: the rows of an invocation that did not overlap another one
\* carry their own req_hash and their own id.
C39_SeparateRowsAreOwn ==
    \A t \in Invokers :
      (tasks[t].pc = "done" /\ ~tasks[t].overlapped) => RowsAreOwn(t)

C39_Witness ==
    /\ \A t \in Invokers :
         tasks[t].pc = "done" /\ ~tasks[t].overlapped /\ tasks[t].rows # <<>>
    /\ tasks[1].rows[1].line # tasks[2].rows[1].line

====
